---- MODULE Spec2Model ----
(***************************************************************************)
(* Model of the Minimal Joke API (src/main.py): the in-memory token map,   *)
(* the SQLite table "jokes" with its AUTOINCREMENT sequence and its single *)
(* write lock, and the four endpoints /auth/token, /jokes/fetch, /jokes    *)
(* and /jokes/{joke_id}.                                                   *)
(*                                                                         *)
(* Scheduling.  fetch_and_store is "async def": all such requests run on   *)
(* one event-loop thread and interleave only at "await                     *)
(* fetch_random_joke()".  list_jokes, get_joke and issue_token are plain   *)
(* "def": the framework runs them on worker threads, so every SQL          *)
(* statement of theirs is a step of its own.  Every request opens its own  *)
(* connection (connect()).                                                 *)
(*                                                                         *)
(* Values.  A value that may be None/NULL is a sequence of length 0 or 1   *)
(* (None == <<>>, Some(v) == <<v>>).  A text is a sequence of one-         *)
(* character strings, so that LIKE can be computed character by character. *)
(***************************************************************************)
EXTENDS Integers, Sequences, FiniteSets, TLC

\* ---- bounds of the model ------------------------------------------------
MaxReq == 2         \* /jokes/fetch requests in flight at the same time
MaxCalls == 3       \* upstream calls made in one behaviour, over all requests
MaxLimit == 2       \* largest "limit" of /jokes that is tried
MaxOffset == 1      \* largest "offset" of /jokes that is tried

\* ---- limits the routes declare -----------------------------------------
CountLe == 20       \* count: Query(1, ge=1, le=20)
LimitLe == 100      \* limit: Query(20, ge=1, le=100)

Req == 1..MaxReq

None == <<>>
Some(v) == <<v>>

Max(a, b) == IF a >= b THEN a ELSE b
Min(a, b) == IF a <= b THEN a ELSE b

\* ---- input domains ------------------------------------------------------
Issuable == {"t1"}                        \* values secrets.token_urlsafe may return
Toks == Issuable \cup {"t2"}              \* bearer tokens a client may send
Usernames == {"admin", "bob"}
Passwords == {"admin", "x"}

\* JSON bodies the upstream API may answer with (a missing key is None)
Responses ==
  { [id |-> Some(11), type |-> Some("general"), setup |-> Some(<<"a", "b">>), punchline |-> Some(<<"c">>)],
    [id |-> Some(12), type |-> None,            setup |-> Some(<<"A">>),      punchline |-> Some(<<>>)],
    [id |-> None,     type |-> Some("general"), setup |-> None,               punchline |-> Some(<<"b">>)] }

\* search strings tried for the parameter q of /jokes
Queries == { None, Some(<<>>), Some(<<"a">>), Some(<<"%">>) }

\* ---- auth ---------------------------------------------------------------
DEMO_USERS == [u \in {"admin"} |-> "admin"]

DictGet(d, k) == IF k \in DOMAIN d THEN Some(d[k]) ELSE None

\* Python truthiness of an Optional[str]
Falsy(o) == o = None \/ o[1] = ""

\* ---- the joke table -----------------------------------------------------
Row(id, ext_id, jtype, setup, punchline, now) ==
  [id |-> id, external_id |-> ext_id, type |-> jtype, setup |-> setup,
   punchline |-> punchline, created_at |-> now]

Ids(rows) == {j.id : j \in rows}

MaxId(rows) == IF rows = {} THEN 0 ELSE CHOOSE m \in Ids(rows) : \A i \in Ids(rows) : i <= m

\* AUTOINCREMENT: one more than the largest rowid the table ever held
NewRowid(rows, s) == Max(s, MaxId(rows)) + 1

\* UNIQUE(external_id): NULL never conflicts, SQL's NULLs are pairwise distinct
Conflict(rows, ext_id) == ext_id # None /\ \E j \in rows : j.external_id = ext_id

\* data.get("setup") or ""
OrEmpty(o) == IF o = None \/ o[1] = <<>> THEN <<>> ELSE o[1]

\* faulty variant of InsertOrIgnore: INSERT OR REPLACE, the conflicting row
\* gives way to the new one
InsertOrReplace(rows, s, data, now) ==
  LET id == NewRowid(rows, s)
      row == Row(id, data.id, data.type, OrEmpty(data.setup), OrEmpty(data.punchline), now)
  IN [rows |-> {j \in rows : ~Conflict({j}, data.id)} \cup {row}, seq |-> id,
      rowcount |-> 1, lastrowid |-> id]

\* INSERT OR IGNORE ... VALUES (ext_id, jtype, setup, punchline, now) on the
\* table `rows` with sequence `s`: the new table and sequence, cur.rowcount and
\* cur.lastrowid.  The rowid is drawn, and the sequence advanced, before the
\* uniqueness check, so an ignored insert leaves a gap in the ids.
InsertOrIgnore(rows, s, data, now) ==
  LET id == NewRowid(rows, s)
      row == Row(id, data.id, data.type, OrEmpty(data.setup), OrEmpty(data.punchline), now)
  IN IF Conflict(rows, data.id)
     THEN [rows |-> rows, seq |-> id, rowcount |-> 0, lastrowid |-> 0]
     ELSE [rows |-> rows \cup {row}, seq |-> id, rowcount |-> 1, lastrowid |-> id]

\* ORDER BY id DESC
RECURSIVE OrderByIdDesc(_)
OrderByIdDesc(rows) ==
  IF rows = {} THEN <<>>
  ELSE LET top == CHOOSE j \in rows : \A k \in rows : k.id <= j.id
       IN <<top>> \o OrderByIdDesc(rows \ {top})

\* LIMIT limit OFFSET offset
LimitOffset(s, limit, offset) == SubSeq(s, offset + 1, Min(offset + limit, Len(s)))

\* ---- LIKE ---------------------------------------------------------------
\* SQLite folds the case of ASCII letters when it compares for LIKE
Lower(c) == IF c = "A" THEN "a" ELSE IF c = "B" THEN "b" ELSE IF c = "C" THEN "c" ELSE c

\* text LIKE pattern: % matches any run of characters, _ any one character
RECURSIVE Like(_, _)
Like(text, pattern) ==
  IF pattern = <<>> THEN text = <<>>
  ELSE IF Head(pattern) = "%"
       THEN Like(text, Tail(pattern)) \/ (text # <<>> /\ Like(Tail(text), pattern))
  ELSE IF Head(pattern) = "_"
       THEN text # <<>> /\ Like(Tail(text), Tail(pattern))
  ELSE text # <<>> /\ Lower(Head(text)) = Lower(Head(pattern))
       /\ Like(Tail(text), Tail(pattern))

\* the rows list_jokes selects: WHERE setup LIKE ? OR punchline LIKE ?, with
\* like = "%" + q + "%", and no WHERE at all when q is None or ""
Where(rows, q) ==
  IF q = None \/ q[1] = <<>> THEN rows
  ELSE LET like == <<"%">> \o q[1] \o <<"%">>
       IN {j \in rows : Like(j.setup, like) \/ Like(j.punchline, like)}

\* ---- requests and responses --------------------------------------------
\* A /jokes/fetch request in flight (pc = "await": it waits for an upstream
\* answer) and the locals of its handler.  got, the upstream answers received
\* so far, is history and not program state.
Idle ==
  [pc |-> "idle", token |-> "", user |-> None, count |-> 0, now |-> 0,
   i |-> 0, stored_ids |-> <<>>, got |-> {}]

\* The /jokes request in flight (pc = "page": it has run its COUNT query and
\* not yet its page query).  /jokes only reads, so two of them do not affect
\* each other and one at a time is modelled.  seen, the table the COUNT query
\* read, is history.
NoPage == [pc |-> "idle", token |-> "", user |-> None, q |-> None, total |-> 0, seen |-> {}]

\* What a response answers: the parameters of the request and, for
\* /jokes/fetch, the upstream answers it received and the ids it had stored
\* when it ended.  History, kept with the response for the properties below.
NoRequest ==
  [token |-> "", username |-> "", password |-> "", joke_id |-> 0, count |-> 0,
   q |-> None, got |-> {}, stored_ids |-> <<>>]

\* The response sent by the latest step; status 0 when it sent none.  exc
\* names the exception behind a 500.
Response(kind, status, exc, items, total, limit, offset, access_token, request) ==
  [kind |-> kind, status |-> status, exc |-> exc, items |-> items,
   total |-> total, limit |-> limit, offset |-> offset, access_token |-> access_token,
   request |-> request]

Error(kind, status, exc, request) ==
  Response(kind, status, exc, <<>>, 0, 0, 0, "", request)

NoResp == Error("", 0, "", NoRequest)

\* what a 401 answers: the token is all that was read of the request
Refused(token) == [NoRequest EXCEPT !.token = token]

NoTx == [owner |-> 0, rows |-> {}, seq |-> 0]

VARIABLES
  TOKENS,    \* token -> username
  jokes,     \* the committed rows of table jokes
  seq,       \* the committed sqlite_sequence entry of table jokes
  tx,        \* the open write transaction: its connection and its view of the table
  req,       \* the /jokes/fetch handlers
  page,      \* the /jokes handler
  clock,     \* the time, as the number of /jokes/fetch requests accepted
  calls,     \* upstream calls the accepted /jokes/fetch requests make
  resp       \* the response sent by the latest step

vars == <<TOKENS, jokes, seq, tx, req, page, clock, calls, resp>>

\* faulty variant of get_current_user: the token is not looked up
get_current_user_any(token) == Some("admin")

\* get_current_user: the user of a token, None when it raises 401
get_current_user(token) ==
  LET user == DictGet(TOKENS, token)
  IN IF Falsy(user) THEN None ELSE user

\* init_db on an empty database; no token issued, nothing in flight
Init ==
  /\ TOKENS = << >>
  /\ jokes = {}
  /\ seq = 0
  /\ tx = NoTx
  /\ req = [r \in Req |-> Idle]
  /\ page = NoPage
  /\ clock = 0
  /\ calls = 0
  /\ resp = NoResp

\* The handlers that are plain "def" (issue_token, get_joke, list_jokes) run
\* on worker threads.  They touch each other's data nowhere: only
\* fetch_and_store writes the table, and a token check is the first thing a
\* request does.  So they are modelled one at a time; what runs beside them
\* is the event loop with its fetch_and_store requests.
WorkerFree == page.pc = "idle"

\* resp shows one response at a time: a handler takes its next step once the
\* response of the step before has been sent
Sent == resp.status = 0

\* the framework sends the response a handler returned or raised
send_response ==
  /\ ~Sent
  /\ resp' = NoResp
  /\ UNCHANGED <<TOKENS, jokes, seq, tx, req, page, clock, calls>>

\* ---- POST /auth/token ---------------------------------------------------
issue_token ==
  \E username \in Usernames, password \in Passwords, token \in Issuable :
    /\ Sent /\ WorkerFree
    /\ LET form == [NoRequest EXCEPT !.username = username, !.password = password]
       IN IF DictGet(DEMO_USERS, username) # Some(password)
          THEN /\ resp' = Error("token", 400, "", form)
               /\ TOKENS' = TOKENS
          ELSE /\ TOKENS' = (token :> username) @@ TOKENS
               /\ resp' = Response("token", 200, "", <<>>, 0, 0, 0, token, form)
    /\ UNCHANGED <<jokes, seq, tx, req, page, clock, calls>>

\* ---- GET /jokes/{joke_id} -----------------------------------------------
\* faulty variant of SelectById: WHERE external_id = ?
SelectByExternalId(rows, joke_id) == {j \in rows : j.external_id = Some(joke_id)}

\* SELECT ... FROM jokes WHERE id = ?
SelectById(rows, joke_id) == {j \in rows : j.id = joke_id}

\* The token check and the one SELECT of the handler.
get_joke ==
  \E token \in Toks, joke_id \in 1..(MaxId(jokes) + 1) :
    /\ Sent /\ WorkerFree
    /\ LET request == [NoRequest EXCEPT !.token = token, !.joke_id = joke_id]
           found == SelectById(jokes, joke_id)
       IN IF get_current_user(token) = None
          THEN resp' = Error("get", 401, "", Refused(token))
          ELSE IF found = {}
          THEN resp' = Error("get", 404, "", request)
          ELSE resp' = Response("get", 200, "", <<CHOOSE j \in found : TRUE>>,
                                0, 0, 0, "", request)
    /\ UNCHANGED <<TOKENS, jokes, seq, tx, req, page, clock, calls>>

\* ---- GET /jokes ---------------------------------------------------------
\* the token check and the COUNT query
list_jokes_count ==
  \E token \in Toks, q \in Queries :
    /\ Sent /\ WorkerFree
    /\ LET user == get_current_user(token)
       IN IF user = None
          THEN /\ resp' = Error("list", 401, "", Refused(token))
               /\ page' = page
          ELSE /\ page' = [pc |-> "page", token |-> token, user |-> user, q |-> q,
                           total |-> Cardinality(Where(jokes, q)), seen |-> jokes]
               /\ resp' = NoResp
    /\ UNCHANGED <<TOKENS, jokes, seq, tx, req, clock, calls>>

\* The page query and the response.  limit and offset are parameters of the
\* request that the handler reads here for the first time.
list_jokes_page ==
  \E limit \in 1..Min(MaxLimit, LimitLe), offset \in 0..MaxOffset :
    /\ Sent /\ page.pc = "page"
    /\ LET rows == LimitOffset(OrderByIdDesc(Where(jokes, page.q)), limit, offset)
       IN resp' = Response("list", 200, "", rows, page.total, limit, offset, "",
                           [NoRequest EXCEPT !.token = page.token, !.q = page.q])
    /\ page' = NoPage
    /\ UNCHANGED <<TOKENS, jokes, seq, tx, req, clock, calls>>

\* ---- POST /jokes/fetch --------------------------------------------------
\* faulty variant of ExitWithException: the transaction is committed
ExitCommitting(t, r, db) == IF t.owner = r THEN [rows |-> t.rows, seq |-> t.seq] ELSE db

\* "with connect() as conn" left by an exception: the connection rolls back,
\* the committed table `db` stays
ExitWithException(t, r, db) == db

\* if cur.rowcount: stored_ids.append(cur.lastrowid)
StoredIds(stored_ids, cur) ==
  IF cur.rowcount # 0 THEN Append(stored_ids, cur.lastrowid) ELSE stored_ids

\* faulty variant of SelectStored: always the latest `count` rows
SelectLatest(rows, stored_ids, count) == LimitOffset(OrderByIdDesc(rows), count, 0)

\* the final SELECT: the rows this request inserted, else the latest `count`
SelectStored(rows, stored_ids, count) ==
  IF stored_ids # <<>>
  THEN OrderByIdDesc({j \in rows : \E k \in 1..Len(stored_ids) : j.id = stored_ids[k]})
  ELSE LimitOffset(OrderByIdDesc(rows), count, 0)

\* what a response to request r answers, r having received `got` and stored
\* `stored_ids`
Answered(r, got, stored_ids) ==
  [NoRequest EXCEPT !.token = req[r].token, !.count = req[r].count, !.got = got,
                    !.stored_ids = stored_ids]

\* a request is taken by the first handler that is free
Free(r) == req[r].pc = "idle" /\ \A s \in Req : s < r => req[s].pc # "idle"

\* the token check, and the handler up to its first upstream call
fetch_and_store_begin(r) ==
  \E token \in Toks, count \in 1..Min(CountLe, MaxCalls - calls) :
    /\ Sent /\ Free(r)
    /\ LET user == get_current_user(token)
       IN IF user = None
          THEN /\ resp' = Error("fetch", 401, "", Refused(token))
               /\ UNCHANGED <<req, clock, calls>>
          ELSE /\ clock' = clock + 1
               /\ calls' = calls + count
               /\ req' = [req EXCEPT ![r] =
                            [Idle EXCEPT !.pc = "await", !.token = token, !.user = user,
                                         !.count = count, !.now = clock']]
               /\ resp' = NoResp
    /\ UNCHANGED <<TOKENS, jokes, seq, tx, page>>

\* fetch_random_joke raises (timeout, connection error, raise_for_status):
\* the exception leaves the "with connect()" block and ends the request
fetch_and_store_upstream_error(r) ==
  /\ Sent /\ req[r].pc = "await"
  /\ LET db == ExitWithException(tx, r, [rows |-> jokes, seq |-> seq])
     IN jokes' = db.rows /\ seq' = db.seq
  /\ tx' = IF tx.owner = r THEN NoTx ELSE tx
  /\ resp' = Error("fetch", 500, "HTTPError", Answered(r, req[r].got, req[r].stored_ids))
  /\ req' = [req EXCEPT ![r] = Idle]
  /\ UNCHANGED <<TOKENS, page, clock, calls>>

\* fetch_random_joke returns `data`: the rest of the loop body and, after the
\* last round, the commit, the final SELECT and the response.  Nothing in it
\* awaits, so no other fetch_and_store runs in between.
fetch_and_store_joke(r) ==
  \E data \in Responses :
    /\ Sent /\ req[r].pc = "await"
    /\ IF tx.owner \notin {0, r}
       THEN \* Another connection holds the write lock and cannot release it
            \* while this one blocks the event loop: sqlite3 gives up after
            \* its busy timeout with "database is locked".
            /\ resp' = Error("fetch", 500, "OperationalError",
                              Answered(r, req[r].got \cup {data}, req[r].stored_ids))
            /\ req' = [req EXCEPT ![r] = Idle]
            /\ LET db == ExitWithException(tx, r, [rows |-> jokes, seq |-> seq])
               IN jokes' = db.rows /\ seq' = db.seq
            /\ tx' = tx
       ELSE LET t == IF tx.owner = r THEN tx ELSE [owner |-> r, rows |-> jokes, seq |-> seq]
                cur == InsertOrIgnore(t.rows, t.seq, data, req[r].now)
                stored_ids == StoredIds(req[r].stored_ids, cur)
            IN IF req[r].i + 1 < req[r].count
               THEN /\ tx' = [owner |-> r, rows |-> cur.rows, seq |-> cur.seq]
                    /\ req' = [req EXCEPT ![r].stored_ids = stored_ids,
                                          ![r].got = @ \cup {data}, ![r].i = @ + 1]
                    /\ resp' = NoResp
                    /\ UNCHANGED <<jokes, seq>>
               ELSE /\ tx' = NoTx
                    /\ jokes' = cur.rows
                    /\ seq' = cur.seq
                    /\ LET rows == SelectStored(jokes', stored_ids, req[r].count)
                       IN resp' = Response("fetch", 200, "", rows, Len(rows), Len(rows), 0,
                                           "", Answered(r, req[r].got \cup {data}, stored_ids))
                    /\ req' = [req EXCEPT ![r] = Idle]
    /\ UNCHANGED <<TOKENS, page, clock, calls>>

Next ==
  \/ send_response
  \/ issue_token
  \/ get_joke
  \/ list_jokes_count
  \/ list_jokes_page
  \/ \E r \in Req : fetch_and_store_begin(r)
  \/ \E r \in Req : fetch_and_store_joke(r)
  \/ \E r \in Req : fetch_and_store_upstream_error(r)

Spec == Init /\ [][Next]_vars

\* ======================================================================
\* Properties
\* ======================================================================
Range(s) == {s[k] : k \in 1..Len(s)}

DescendingById(s) == \A a, b \in 1..Len(s) : a < b => s[a].id > s[b].id

\* text contains the string sub, character for character
Contains(text, sub) ==
  \E k \in 0..(Len(text) - Len(sub)) : SubSeq(text, k + 1, k + Len(sub)) = sub

\* request r of /jokes/fetch ends in this step
FetchEnds(r) == req[r].pc = "await" /\ req'[r].pc = "idle"

\* ---- C1 ----------------------------------------------------------------
\* C1: no two stored jokes have the same external_id.
C1_UniqueExternalId ==
  \A j, k \in jokes : j.external_id = k.external_id => j = k

\* ---- C2 ----------------------------------------------------------------
\* C2: /jokes/fetch, /jokes and /jokes/{joke_id} are served only with a
\* token that /auth/token returned for a demo user's username and password;
\* with any other token the answer is 401 and the step makes no upstream
\* call and leaves table and handlers as they were; /auth/token with wrong
\* credentials answers 400 and leaves the token map unchanged.
C2_TokenCheck ==
  [][ /\ \A t \in DOMAIN TOKENS' : TOKENS'[t] \in DOMAIN DEMO_USERS
      /\ TOKENS' # TOKENS =>
           /\ resp'.kind = "token" /\ resp'.status = 200
           /\ DEMO_USERS[resp'.request.username] = resp'.request.password
           /\ DOMAIN TOKENS' = DOMAIN TOKENS \cup {resp'.access_token}
      /\ resp'.kind = "token" =>
           /\ resp'.status = 400 <=>
                ~(/\ resp'.request.username \in DOMAIN DEMO_USERS
                  /\ DEMO_USERS[resp'.request.username] = resp'.request.password)
           /\ resp'.status = 400 => TOKENS' = TOKENS
           /\ resp'.status # 400 => resp'.status = 200 /\ resp'.access_token \in DOMAIN TOKENS'
      /\ resp'.kind \in {"fetch", "list", "get"} =>
           (resp'.status = 401 <=> resp'.request.token \notin DOMAIN TOKENS)
      /\ resp'.status = 401 => UNCHANGED <<TOKENS, jokes, seq, tx, req, page, clock, calls>>
      /\ \A r \in Req : req'[r].pc # "idle" => req'[r].token \in DOMAIN TOKENS'
      /\ page'.pc # "idle" => page'.token \in DOMAIN TOKENS'
    ]_vars

\* a request with a token that was never issued has been refused while
\* another token is valid
C2_Witness ==
  /\ resp.status = 401 /\ resp.kind = "fetch"
  /\ DOMAIN TOKENS # {} /\ resp.request.token \notin DOMAIN TOKENS

\* ---- C3 ----------------------------------------------------------------
\* C3: with a valid token, GET /jokes/{joke_id} answers 404 exactly when no
\* stored joke has that id, and otherwise 200 with the one stored row of
\* that id.
C3_GetJoke ==
  (resp.kind = "get" /\ resp.status # 401) =>
    LET match == {j \in jokes : j.id = resp.request.joke_id}
    IN /\ resp.status = 404 <=> match = {}
       /\ resp.status # 404 =>
            /\ resp.status = 200
            /\ Len(resp.items) = 1
            /\ match = {resp.items[1]}

\* a row was returned whose id differs from its external_id, beside others
C3_Witness ==
  /\ resp.kind = "get" /\ resp.status = 200
  /\ Cardinality(jokes) >= 2
  /\ resp.items[1].external_id # Some(resp.items[1].id)

\* ---- C4 ----------------------------------------------------------------
\* C4: no step changes or removes a committed row; a new row gets an id
\* greater than every id stored before; /jokes, /jokes/{joke_id},
\* /auth/token and every failed request leave the table unchanged.
C4_InsertOnce ==
  [][ /\ jokes \subseteq jokes'
      /\ \A j \in jokes' \ jokes : \A k \in jokes : j.id > k.id
      /\ \A j, k \in jokes' : j.id = k.id => j = k
      /\ (resp'.kind \in {"token", "get", "list"} \/ page' # page) => jokes' = jokes
      /\ resp'.status \in {400, 401, 404, 500} => jokes' = jokes
    ]_vars

\* a later request has added a row to a table that held one already
C4_Witness ==
  \E j, k \in jokes : j.created_at < k.created_at /\ j.id < k.id

\* ---- C5 ----------------------------------------------------------------
\* C5: when an upstream call of a /jokes/fetch request fails, the request
\* ends at once with that error, waiting for no further upstream answer,
\* and the table and its sequence are as committed before: what the request
\* had inserted is not persisted and its transaction is gone.
C5_UpstreamFailure ==
  [][ \A r \in Req :
        (FetchEnds(r) /\ resp'.exc = "HTTPError") =>
          /\ resp'.kind = "fetch" /\ resp'.status = 500
          /\ jokes' = jokes /\ seq' = seq
          /\ tx'.owner # r
          /\ \A id \in Range(resp'.request.stored_ids) : id \notin Ids(jokes')
          /\ calls' = calls /\ req' = [req EXCEPT ![r] = Idle]
    ]_vars

\* an upstream call failed after the request had inserted a row
C5_Witness ==
  /\ resp.kind = "fetch" /\ resp.exc = "HTTPError"
  /\ resp.request.stored_ids # <<>>

\* ---- C6 ----------------------------------------------------------------
\* C6: a successful /jokes/fetch made exactly count upstream calls, the
\* table grew by the number of distinct external_ids among the answers that
\* were not stored before, and every new row carries external_id, type,
\* setup and punchline of one of the answers.
C6_FetchEffect ==
  [][ \A r \in Req :
        (FetchEnds(r) /\ resp'.status = 200) =>
          LET got == resp'.request.got
              new == jokes' \ jokes
          IN /\ req[r].i + 1 = req[r].count
             /\ jokes \subseteq jokes'
             /\ Cardinality(new) =
                  Cardinality({d.id : d \in got} \ {j.external_id : j \in jokes})
             /\ Cardinality(new) <= req[r].count
             /\ \A j \in new : \E d \in got :
                  /\ j.external_id = d.id /\ j.type = d.type
                  /\ j.setup = OrEmpty(d.setup) /\ j.punchline = OrEmpty(d.punchline)
    ]_vars

\* ---- C7 ----------------------------------------------------------------
\* C7: a successful /jokes/fetch answers with the rows it inserted, if it
\* inserted any, and else with the min(count, number of stored jokes) rows
\* of the highest ids; in descending order of id either way, with at most
\* count items, total = limit = len(items) and offset = 0.
C7_FetchResponse ==
  [][ \A r \in Req :
        (FetchEnds(r) /\ resp'.status = 200) =>
          LET items == resp'.items
              new == jokes' \ jokes
          IN /\ DescendingById(items)
             /\ Len(items) <= req[r].count
             /\ resp'.total = Len(items) /\ resp'.limit = Len(items) /\ resp'.offset = 0
             /\ new # {} => Range(items) = new
             /\ new = {} =>
                  /\ Len(items) = Min(req[r].count, Cardinality(jokes'))
                  /\ Range(items) \subseteq jokes'
                  /\ \A j \in Range(items) : \A k \in jokes' \ Range(items) : j.id > k.id
    ]_vars

\* a request of count 2 has stored one row and answered with it alone, the
\* table holding a row more
C7_Witness ==
  /\ resp.kind = "fetch" /\ resp.status = 200
  /\ resp.request.count = 2 /\ Len(resp.items) = 1
  /\ Cardinality(jokes) >= 2

\* ---- C8 ----------------------------------------------------------------
\* C8: on a table that does not change during the request, /jokes answers
\* with total = the number of jokes whose setup or punchline contains q
\* (all jokes when q is absent or empty), items = the slice offset ..
\* offset+limit-1 of these jokes in descending order of id, and the limit
\* and offset of the request.
C8_Pagination ==
  [][ (page.pc = "page" /\ page'.pc = "idle" /\ page.seen = jokes) =>
        LET q == page.q
            matching == IF q = None \/ q[1] = <<>> THEN jokes
                        ELSE {j \in jokes : Contains(j.setup, q[1]) \/ Contains(j.punchline, q[1])}
            items == resp'.items
            total == resp'.total
        IN /\ total = Cardinality(matching)
           /\ DescendingById(items)
           /\ Len(items) = Min(resp'.limit, Max(0, total - resp'.offset))
           /\ Range(items) \subseteq matching
           /\ \A j \in matching :
                LET above == Cardinality({k \in matching : k.id > j.id})
                IN j \in Range(items) <=>
                     (resp'.offset <= above /\ above < resp'.offset + resp'.limit)
    ]_vars

\* ---- C9 ----------------------------------------------------------------
\* C9: total and items of a /jokes response describe one state of the
\* table: the page is never longer than what total leaves after offset.
C9_ConsistentPage ==
  (resp.kind = "list" /\ resp.status = 200) =>
    Len(resp.items) <= Max(0, resp.total - resp.offset)

\* ---- C10 ---------------------------------------------------------------
\* C10: a /jokes/fetch request whose upstream calls all succeed is not
\* failed by another request's write transaction: it answers 500 only after
\* an upstream failure.
C10_NoLockFailure ==
  (resp.kind = "fetch" /\ resp.status = 500) => resp.exc = "HTTPError"

====
